---- MODULE Spec2Model ----
(***************************************************************************)
(* A model of src/inventory_system.py: the module-global dictionary        *)
(* stock_data and the functions add_item, remove_item, get_qty, load_data, *)
(* save_data, print_data and check_low_items.                              *)
(*                                                                         *)
(* Python values are records [ty, s, h]: ty is the Python type name, s the *)
(* text of a str, and h the numeric value counted in halves, so that the   *)
(* int 3 is h = 6 and the float 1.5 is h = 3.  A bool behaves as the int 0 *)
(* or 1 in every expression of the module and is not modelled apart.       *)
(* Items passed by callers are hashable values.                            *)
(***************************************************************************)
EXTENDS Integers, Sequences, FiniteSets, TLC

VARIABLES
    stock_data,  \* the global dict: a sequence of <<key, value>> in insertion order
    fs,          \* the file system: path -> [exists, text]
    op,          \* the last call: its name and arguments
    pre,         \* stock_data as it was when the last call started
    ret,         \* the last call's return value
    out,         \* what the last call printed, a sequence of messages
    raised,      \* whether the last call let an exception reach its caller
    logs         \* the caller's logs list after the last call

vars == <<stock_data, fs, op, pre, ret, out, raised, logs>>

----------------------------------------------------------------------------
(* Bounds *)

\* Callers stop adding when a quantity would pass MaxQty.
MaxQty == 3

\* The same where the store is saved and loaded; quantities there reach two
\* digits and move in coarser steps.
MaxFileQty == 10

----------------------------------------------------------------------------
(* Python values *)

Str(s) == [ty |-> "str", s |-> s, h |-> 0]

IntV(n) == [ty |-> "int", s |-> "", h |-> 2 * n]

FloatV(halves) == [ty |-> "float", s |-> "", h |-> halves]

NoneV == [ty |-> "NoneType", s |-> "", h |-> 0]

IsNumber(v) == v.ty \in {"int", "float"}

\* isinstance(v, str), isinstance(v, int)
IsInstanceStr(v) == v.ty = "str"

IsInstanceInt(v) == v.ty = "int"

\* bool(v): the empty str, None and zero are false
Truthy(v) ==
    CASE v.ty = "str" -> v.s # ""
      [] v.ty = "NoneType" -> FALSE
      [] OTHER -> v.h # 0

\* a + b and a - b on numbers: int with int gives int, anything with a float
\* gives float
NumType(a, b) == IF a.ty = "int" /\ b.ty = "int" THEN "int" ELSE "float"

PyAdd(a, b) == [ty |-> NumType(a, b), s |-> "", h |-> a.h + b.h]

PySub(a, b) == [ty |-> NumType(a, b), s |-> "", h |-> a.h - b.h]

\* a + b and a - b raise TypeError unless both are numbers
AddRaises(a, b) == ~(IsNumber(a) /\ IsNumber(b))

SubRaises(a, b) == ~(IsNumber(a) /\ IsNumber(b))

PyLess(a, b) == a.h < b.h

PyLessEq(a, b) == a.h <= b.h

----------------------------------------------------------------------------
(* dict operations; a dict is a sequence of <<key, value>> with distinct keys *)

EmptyDict == <<>>

Keys(d) == {d[i][1] : i \in 1..Len(d)}

\* key in d
Contains(d, k) == \E i \in 1..Len(d) : d[i][1] = k

IndexOf(d, k) == CHOOSE i \in 1..Len(d) : d[i][1] = k

\* d[k]
Lookup(d, k) == d[IndexOf(d, k)][2]

\* d.get(k, default)
DictGet(d, k, default) == IF Contains(d, k) THEN Lookup(d, k) ELSE default

\* d[k] = v: an existing key keeps its place, a new key goes last
DictSet(d, k, v) ==
    IF Contains(d, k)
    THEN [d EXCEPT ![IndexOf(d, k)] = <<k, v>>]
    ELSE Append(d, <<k, v>>)

\* del d[k]
DictDel(d, k) ==
    LET i == IndexOf(d, k)
    IN  SubSeq(d, 1, i - 1) \o SubSeq(d, i + 1, Len(d))

----------------------------------------------------------------------------
(* What the functions print, and the record of a call *)

Msg(kind, a, b) == [kind |-> kind, a |-> a, b |-> b]

NotFoundWarning(item) == Msg("Warning: Item not found in inventory", item, NoneV)

RemoveError(item, fault) == Msg("Error removing item", item, Str(fault))

\* the text add_item appends to logs; the timestamp is the wall clock's and
\* is left out
LogEntry(qty, item) == [text |-> "Added", qty |-> qty, item |-> item]

NoArgs ==
    [name |-> "none", item |-> NoneV, qty |-> NoneV, hasLogs |-> FALSE,
     logsIn |-> <<>>, file |-> "", threshold |-> NoneV, followsSave |-> FALSE]

----------------------------------------------------------------------------
(* add_item *)

\* A variant of AddItemAccepts without the check of qty.
AddItemAcceptsAnyQty(item, qty) == ~(~Truthy(item) \/ ~IsInstanceStr(item))

\* neither of the two early returns is taken
AddItemAccepts(item, qty) ==
    /\ ~(~Truthy(item) \/ ~IsInstanceStr(item))
    /\ ~(~IsInstanceInt(qty) \/ PyLess(qty, IntV(0)))

\* the exception the body of add_item raises: it has no handler
AddItemFault(d, item, qty) ==
    IF AddItemAccepts(item, qty) /\ AddRaises(DictGet(d, item, IntV(0)), qty)
    THEN "TypeError"
    ELSE "none"

\* A variant of AddItemStock that stores qty in place of the sum.
AddItemStockOverwrite(d, item, qty) ==
    IF AddItemAccepts(item, qty) /\ AddItemFault(d, item, qty) = "none"
    THEN DictSet(d, item, qty)
    ELSE d

\* stock_data after add_item(item, qty)
AddItemStock(d, item, qty) ==
    IF AddItemAccepts(item, qty) /\ AddItemFault(d, item, qty) = "none"
    THEN DictSet(d, item, PyAdd(DictGet(d, item, IntV(0)), qty))
    ELSE d

\* the list logs after add_item(item, qty, logs)
AddItemLogs(d, l, item, qty) ==
    IF AddItemAccepts(item, qty) /\ AddItemFault(d, item, qty) = "none"
    THEN Append(l, LogEntry(qty, item))
    ELSE l

add_item(item, qty, hasLogs, logsIn) ==
    /\ stock_data' = AddItemStock(stock_data, item, qty)
    /\ logs' = IF hasLogs THEN AddItemLogs(stock_data, logsIn, item, qty) ELSE <<>>
    /\ op' = [NoArgs EXCEPT !.name = "add_item", !.item = item, !.qty = qty,
                            !.hasLogs = hasLogs,
                            !.logsIn = IF hasLogs THEN logsIn ELSE <<>>]
    /\ pre' = stock_data
    /\ ret' = NoneV
    /\ out' = <<>>
    /\ raised' = (AddItemFault(stock_data, item, qty) # "none")
    /\ UNCHANGED fs

----------------------------------------------------------------------------
(* remove_item *)

\* the exception raised inside the try block of remove_item
RemoveItemFault(d, item, qty) ==
    IF ~Contains(d, item) THEN "none"
    ELSE IF SubRaises(Lookup(d, item), qty) THEN "TypeError"
    ELSE "none"

\* except (KeyError, TypeError)
RemoveItemCatches == {"KeyError", "TypeError"}

\* A variant of RemoveItemStock that never deletes an entry.
RemoveItemStockKeepsEntry(d, item, qty) ==
    IF ~Contains(d, item) THEN d
    ELSE IF RemoveItemFault(d, item, qty) # "none" THEN d
    ELSE DictSet(d, item, PySub(Lookup(d, item), qty))

\* A variant of RemoveItemStock that deletes an entry below zero only.
RemoveItemStockBelowZero(d, item, qty) ==
    IF ~Contains(d, item) THEN d
    ELSE IF RemoveItemFault(d, item, qty) # "none" THEN d
    ELSE LET d2 == DictSet(d, item, PySub(Lookup(d, item), qty))
         IN  IF PyLess(Lookup(d2, item), IntV(0)) THEN DictDel(d2, item) ELSE d2

\* stock_data after remove_item(item, qty)
RemoveItemStock(d, item, qty) ==
    IF ~Contains(d, item) THEN d
    ELSE IF RemoveItemFault(d, item, qty) # "none" THEN d
    ELSE LET d2 == DictSet(d, item, PySub(Lookup(d, item), qty))
         IN  IF PyLessEq(Lookup(d2, item), IntV(0)) THEN DictDel(d2, item) ELSE d2

\* A variant of RemoveItemOut without the membership test: the KeyError of
\* the subtraction is caught and reported.
RemoveItemOutNoTest(d, item, qty) ==
    IF ~Contains(d, item) THEN <<RemoveError(item, "KeyError")>>
    ELSE IF RemoveItemFault(d, item, qty) \in RemoveItemCatches
         THEN <<RemoveError(item, RemoveItemFault(d, item, qty))>>
    ELSE <<>>

\* what remove_item(item, qty) prints
RemoveItemOut(d, item, qty) ==
    IF ~Contains(d, item) THEN <<NotFoundWarning(item)>>
    ELSE IF RemoveItemFault(d, item, qty) \in RemoveItemCatches
         THEN <<RemoveError(item, RemoveItemFault(d, item, qty))>>
    ELSE <<>>

remove_item(item, qty) ==
    /\ stock_data' = RemoveItemStock(stock_data, item, qty)
    /\ out' = RemoveItemOut(stock_data, item, qty)
    /\ op' = [NoArgs EXCEPT !.name = "remove_item", !.item = item, !.qty = qty]
    /\ pre' = stock_data
    /\ ret' = NoneV
    /\ raised' = (RemoveItemFault(stock_data, item, qty) \notin {"none"} \cup RemoveItemCatches)
    /\ logs' = <<>>
    /\ UNCHANGED fs

----------------------------------------------------------------------------
(* get_qty, check_low_items, print_data *)

\* the value get_qty(item) returns
GetQtyValue(d, item) == DictGet(d, item, IntV(0))

get_qty(item) ==
    /\ ret' = GetQtyValue(stock_data, item)
    /\ op' = [NoArgs EXCEPT !.name = "get_qty", !.item = item]
    /\ pre' = stock_data
    /\ out' = <<>>
    /\ raised' = FALSE
    /\ logs' = <<>>
    /\ UNCHANGED <<stock_data, fs>>

\* the loop of check_low_items from entry i on, result being the list so far
RECURSIVE LowItemsFrom(_, _, _, _)
LowItemsFrom(d, i, threshold, result) ==
    IF i > Len(d) THEN result
    ELSE LowItemsFrom(d, i + 1, threshold,
                      IF PyLess(d[i][2], threshold)
                      THEN Append(result, d[i][1])
                      ELSE result)

\* A variant of the loop that compares with <= in place of <.
RECURSIVE LowItemsFromInclusive(_, _, _, _)
LowItemsFromInclusive(d, i, threshold, result) ==
    IF i > Len(d) THEN result
    ELSE LowItemsFromInclusive(d, i + 1, threshold,
                               IF PyLessEq(d[i][2], threshold)
                               THEN Append(result, d[i][1])
                               ELSE result)

LowItemsInclusive(d, threshold) == LowItemsFromInclusive(d, 1, threshold, <<>>)

LowItems(d, threshold) == LowItemsFrom(d, 1, threshold, <<>>)

check_low_items(threshold) ==
    /\ ret' = LowItems(stock_data, threshold)
    /\ op' = [NoArgs EXCEPT !.name = "check_low_items", !.threshold = threshold]
    /\ pre' = stock_data
    /\ out' = <<>>
    /\ raised' = FALSE
    /\ logs' = <<>>
    /\ UNCHANGED <<stock_data, fs>>

\* what print_data prints: the header, then one line per entry
ReportLines(d) ==
    <<Msg("Items Report", NoneV, NoneV)>>
        \o [i \in 1..Len(d) |-> Msg("item -> qty", d[i][1], d[i][2])]

print_data ==
    /\ out' = ReportLines(stock_data)
    /\ op' = [NoArgs EXCEPT !.name = "print_data"]
    /\ pre' = stock_data
    /\ ret' = NoneV
    /\ raised' = FALSE
    /\ logs' = <<>>
    /\ UNCHANGED <<stock_data, fs>>

----------------------------------------------------------------------------
(* JSON text.  A file's text is a sequence of lexemes [kind, text]: a      *)
(* punctuation mark, white space, a quoted string (its characters kept as  *)
(* one unit) or a number written out in characters.                        *)

Punct(c) == [kind |-> "punct", text |-> <<c>>]

Space(c) == [kind |-> "space", text |-> <<c>>]

Quoted(s) == [kind |-> "string", text |-> <<s>>]

Junk(s) == [kind |-> "junk", text |-> <<s>>]

DigitChars == <<"0", "1", "2", "3", "4", "5", "6", "7", "8", "9">>

IsDigit(c) == \E i \in 1..10 : DigitChars[i] = c

DigitValue(c) == (CHOOSE i \in 1..10 : DigitChars[i] = c) - 1

\* A variant of DigitsOf that writes the last digit only.
DigitsOfLast(n) == <<DigitChars[(n % 10) + 1]>>

\* the decimal digits of n >= 0
RECURSIVE DigitsOf(_)
DigitsOf(n) ==
    IF n < 10 THEN <<DigitChars[n + 1]>>
    ELSE DigitsOf(n \div 10) \o <<DigitChars[(n % 10) + 1]>>

\* int.__repr__ and float.__repr__ as json.dump writes a number
NumberText(v) ==
    LET a == IF v.h < 0 THEN -v.h ELSE v.h
        sign == IF v.h < 0 THEN <<"-">> ELSE <<>>
    IN  IF v.ty = "int"
        THEN sign \o DigitsOf(a \div 2)
        ELSE sign \o DigitsOf(a \div 2) \o <<".">>
                  \o (IF a % 2 = 1 THEN <<"5">> ELSE <<"0">>)

Number(v) == [kind |-> "number", text |-> NumberText(v)]

\* one "key": value member, after the line break and the indentation
Member(e) == <<Space("\n  "), Quoted(e[1].s), Punct(":"), Space(" "), Number(e[2])>>

RECURSIVE Members(_, _)
Members(d, i) ==
    IF i > Len(d) THEN <<>>
    ELSE Member(d[i]) \o (IF i < Len(d) THEN <<Punct(",")>> ELSE <<>>)
                      \o Members(d, i + 1)

\* json.dump(d, f, indent=2)
Dump(d) ==
    IF Len(d) = 0 THEN <<Punct("{"), Punct("}")>>
    ELSE <<Punct("{")>> \o Members(d, 1) \o <<Space("\n"), Punct("}")>>

\* the value of a run of digits, most significant first
RECURSIVE DigitsValue(_)
DigitsValue(cs) ==
    IF Len(cs) = 0 THEN 0
    ELSE 10 * DigitsValue(SubSeq(cs, 1, Len(cs) - 1)) + DigitValue(cs[Len(cs)])

AllDigits(cs) == Len(cs) > 0 /\ \A i \in 1..Len(cs) : IsDigit(cs[i])

\* a JSON number: digits, or digits "." digits (here a fraction of 0 or 5)
IsNumberText(cs) ==
    LET body == IF Len(cs) > 0 /\ cs[1] = "-" THEN Tail(cs) ELSE cs
        dots == {i \in 1..Len(body) : body[i] = "."}
    IN  \/ AllDigits(body)
        \/ /\ Cardinality(dots) = 1
           /\ LET i == CHOOSE j \in dots : TRUE
              IN  /\ AllDigits(SubSeq(body, 1, i - 1))
                  /\ SubSeq(body, i + 1, Len(body)) \in {<<"0">>, <<"5">>}

\* the int or float a JSON number stands for
NumberValue(cs) ==
    LET neg == cs[1] = "-"
        body == IF neg THEN Tail(cs) ELSE cs
        dots == {i \in 1..Len(body) : body[i] = "."}
        sgn == IF neg THEN -1 ELSE 1
    IN  IF dots = {}
        THEN IntV(sgn * DigitsValue(body))
        ELSE LET i == CHOOSE j \in dots : TRUE
             IN  FloatV(sgn * (2 * DigitsValue(SubSeq(body, 1, i - 1))
                               + (IF body[i + 1] = "5" THEN 1 ELSE 0)))

Failed == [ok |-> FALSE, value |-> EmptyDict]

\* the members of an object from token i on: a string, a colon, a number,
\* then a comma and more, or the closing brace at the very end
RECURSIVE ParseMembers(_, _, _)
ParseMembers(toks, i, d) ==
    IF i + 3 > Len(toks) THEN Failed
    ELSE IF ~(/\ toks[i].kind = "string"
              /\ toks[i + 1] = Punct(":")
              /\ toks[i + 2].kind = "number"
              /\ IsNumberText(toks[i + 2].text)) THEN Failed
    ELSE LET d2 == DictSet(d, Str(toks[i].text[1]), NumberValue(toks[i + 2].text))
         IN  IF toks[i + 3] = Punct("}")
             THEN (IF i + 3 = Len(toks) THEN [ok |-> TRUE, value |-> d2] ELSE Failed)
             ELSE IF toks[i + 3] = Punct(",") THEN ParseMembers(toks, i + 4, d2)
             ELSE Failed

IsSpace(x) == x.kind = "space"

NotSpace(x) == ~IsSpace(x)

\* json.load(f) of an object of numbers: ok is FALSE where it raises
\* JSONDecodeError
Parse(text) ==
    LET toks == SelectSeq(text, NotSpace)
    IN  IF Len(toks) < 2 \/ toks[1] # Punct("{") THEN Failed
        ELSE IF toks[2] = Punct("}")
             THEN (IF Len(toks) = 2 THEN [ok |-> TRUE, value |-> EmptyDict] ELSE Failed)
             ELSE ParseMembers(toks, 2, EmptyDict)

----------------------------------------------------------------------------
(* Files *)

DefaultFile == "inventory.json"

\* a path whose directory does not exist: open() raises FileNotFoundError
\* for reading and for writing
NoDirFile == "no_such_dir/inventory.json"

Files == {DefaultFile, NoDirFile}

Absent == [exists |-> FALSE, text |-> <<>>]

FileOf(text) == [exists |-> TRUE, text |-> text]

\* open(file, "w") succeeds
CanCreate(file) == file # NoDirFile

NotFoundMsg(file) ==
    Msg("Warning: File not found. Starting with empty inventory.", Str(file), NoneV)

DecodeError(file) ==
    Msg("Error decoding JSON", Str(file), Str("JSONDecodeError"))

SaveError(file, fault) == Msg("Error saving data", Str(file), Str(fault))

----------------------------------------------------------------------------
(* load_data, save_data *)

\* the exception raised inside the try block of load_data
LoadDataFault(f, file) ==
    IF ~f[file].exists THEN "FileNotFoundError"
    ELSE IF ~Parse(f[file].text).ok THEN "JSONDecodeError"
    ELSE "none"

\* the entries of e put into d one by one, as dict.update does
RECURSIVE Update(_, _, _)
Update(d, e, i) ==
    IF i > Len(e) THEN d ELSE Update(DictSet(d, e[i][1], e[i][2]), e, i + 1)

\* A variant of LoadDataStock that merges the file into the store.
LoadDataStockMerge(d, f, file) ==
    CASE LoadDataFault(f, file) = "none" -> Update(d, Parse(f[file].text).value, 1)
      [] LoadDataFault(f, file) = "FileNotFoundError" -> EmptyDict
      [] LoadDataFault(f, file) = "JSONDecodeError" -> EmptyDict
      [] OTHER -> d

\* stock_data after load_data(file), d being stock_data before
LoadDataStock(d, f, file) ==
    CASE LoadDataFault(f, file) = "none" -> Parse(f[file].text).value
      [] LoadDataFault(f, file) = "FileNotFoundError" -> EmptyDict
      [] LoadDataFault(f, file) = "JSONDecodeError" -> EmptyDict
      [] OTHER -> d

LoadDataOut(f, file) ==
    CASE LoadDataFault(f, file) = "FileNotFoundError" -> <<NotFoundMsg(file)>>
      [] LoadDataFault(f, file) = "JSONDecodeError" -> <<DecodeError(file)>>
      [] OTHER -> <<>>

LoadDataCatches == {"FileNotFoundError", "JSONDecodeError"}

load_data(file) ==
    /\ stock_data' = LoadDataStock(stock_data, fs, file)
    /\ out' = LoadDataOut(fs, file)
    /\ op' = [NoArgs EXCEPT !.name = "load_data", !.file = file,
                            !.followsSave = /\ op.name = "save_data"
                                            /\ op.file = file
                                            /\ out = <<>>]
    /\ pre' = stock_data
    /\ ret' = NoneV
    /\ raised' = (LoadDataFault(fs, file) \notin {"none"} \cup LoadDataCatches)
    /\ logs' = <<>>
    /\ UNCHANGED fs

\* the exception raised inside the try block of save_data;
\* FileNotFoundError is an IOError
SaveDataFault(file) == IF CanCreate(file) THEN "none" ELSE "IOError"

SaveDataCatches == {"IOError"}

\* the file system after save_data(file)
SaveDataFiles(f, d, file) ==
    IF SaveDataFault(file) = "none" THEN [f EXCEPT ![file] = FileOf(Dump(d))] ELSE f

SaveDataOut(file) ==
    IF SaveDataFault(file) \in SaveDataCatches
    THEN <<SaveError(file, SaveDataFault(file))>>
    ELSE <<>>

save_data(file) ==
    /\ fs' = SaveDataFiles(fs, stock_data, file)
    /\ out' = SaveDataOut(file)
    /\ op' = [NoArgs EXCEPT !.name = "save_data", !.file = file]
    /\ pre' = stock_data
    /\ ret' = NoneV
    /\ raised' = (SaveDataFault(file) \notin {"none"} \cup SaveDataCatches)
    /\ logs' = <<>>
    /\ UNCHANGED stock_data

----------------------------------------------------------------------------
(* The callers' inputs *)

Names == {"apple", "banana"}

ValidItems == {Str(n) : n \in Names}

\* add_item is given a name, the empty name, or an item that is no str
AddItems == ValidItems \cup {Str(""), IntV(123)}

\* the other functions are given a name that may be stocked or one that
\* never is
Items == ValidItems \cup {Str("orange")}

IntQtys == {IntV(n) : n \in -1..MaxQty}

\* 0.5 and a str
OtherQtys == {FloatV(1), Str("ten")}

Qtys == IntQtys \cup OtherQtys

\* the caller's list: none, or one holding an earlier entry
LogLists == {<<LogEntry(IntV(1), Str("apple"))>>}

DefaultThreshold == 5

Thresholds == {IntV(n) : n \in (-1..(MaxQty + 1)) \cup {DefaultThreshold}}

FileAddQtys == {IntV(0), IntV(10)}

\* 10 and 2.5
FileRemoveQtys == {IntV(10), FloatV(5)}

\* the text of a file the program did not write: nothing, or "{not valid"
ForeignTexts == {<<>>, <<Punct("{"), Junk("not valid")>>}

QtyAfterAdd(item, qty) == DictGet(AddItemStock(stock_data, item, qty), item, IntV(0))

QtyAfterRemove(item, qty) == DictGet(RemoveItemStock(stock_data, item, qty), item, IntV(0))

----------------------------------------------------------------------------
(* The store in memory: every function but load_data and save_data, with   *)
(* arguments of every type                                                 *)

Init ==
    /\ stock_data = EmptyDict
    /\ fs = [f \in Files |-> Absent]
    /\ op = NoArgs
    /\ pre = EmptyDict
    /\ ret = NoneV
    /\ out = <<>>
    /\ raised = FALSE
    /\ logs = <<>>

AddItem ==
    \E item \in AddItems, qty \in Qtys, hasLogs \in BOOLEAN, logsIn \in LogLists :
        /\ QtyAfterAdd(item, qty).h <= 2 * MaxQty
        /\ add_item(item, qty, hasLogs, logsIn)

RemoveItem ==
    \E item \in Items, qty \in Qtys :
        /\ QtyAfterRemove(item, qty).h <= 2 * MaxQty
        /\ remove_item(item, qty)

GetQty == \E item \in Items : get_qty(item)

CheckLowItems == \E threshold \in Thresholds : check_low_items(threshold)

PrintData == print_data

Next == AddItem \/ RemoveItem \/ GetQty \/ CheckLowItems \/ PrintData

Spec == Init /\ [][Next]_vars

----------------------------------------------------------------------------
(* The same with remove_item given integers only *)

RemoveItemInt ==
    \E item \in Items, qty \in IntQtys :
        /\ QtyAfterRemove(item, qty).h <= 2 * MaxQty
        /\ remove_item(item, qty)

NextInt == AddItem \/ RemoveItemInt \/ GetQty \/ CheckLowItems \/ PrintData

SpecInt == Init /\ [][NextInt]_vars

----------------------------------------------------------------------------
(* The store and its file: add_item, remove_item, save_data, load_data     *)

InitFile ==
    /\ stock_data = EmptyDict
    /\ fs \in [Files -> {Absent} \cup {FileOf(t) : t \in ForeignTexts}]
    /\ ~fs[NoDirFile].exists
    /\ op = NoArgs
    /\ pre = EmptyDict
    /\ ret = NoneV
    /\ out = <<>>
    /\ raised = FALSE
    /\ logs = <<>>

AddStock ==
    \E item \in ValidItems, qty \in FileAddQtys :
        /\ QtyAfterAdd(item, qty).h <= 2 * MaxFileQty
        /\ add_item(item, qty, FALSE, <<>>)

RemoveStock ==
    \E item \in ValidItems, qty \in FileRemoveQtys :
        /\ QtyAfterRemove(item, qty).h <= 2 * MaxFileQty
        /\ remove_item(item, qty)

SaveData == \E file \in Files : save_data(file)

LoadData == \E file \in Files : load_data(file)

NextFile == AddStock \/ RemoveStock \/ SaveData \/ LoadData

SpecFile == InitFile /\ [][NextFile]_vars

----------------------------------------------------------------------------
(* The claims.  Each is a predicate on the state a call leaves: op is the  *)
(* call, pre the store it started from.                                    *)

\* what the specification calls a valid item and a valid quantity
ValidItem(item) == item.ty = "str" /\ item.s # ""

ValidQty(qty) == qty.ty = "int" /\ qty.h >= 0

Value(d, i) == d[i][2]

\* C1: no entry of stock_data has a quantity <= 0, in any state reached by
\* add_item, remove_item, save_data and load_data from the empty store.
C1_NoNonPositiveEntry ==
    \A i \in 1..Len(stock_data) : Value(stock_data, i).h > 0

\* C2: when remove_item is only given integers (negative ones too), every
\* quantity in stock_data is an integer and is not negative.
C2_QuantitiesAreNaturals ==
    \A i \in 1..Len(stock_data) :
        /\ Value(stock_data, i).ty = "int"
        /\ Value(stock_data, i).h >= 0
        /\ Value(stock_data, i).h % 2 = 0

C2_Witness ==
    /\ op.name = "remove_item"
    /\ op.qty.ty = "int" /\ op.qty.h < 0
    /\ Contains(pre, op.item)
    /\ Contains(stock_data, op.item)
    /\ GetQtyValue(stock_data, op.item).h > GetQtyValue(pre, op.item).h

\* C3: after add_item(item, qty) with a non-empty str item and an int
\* qty >= 0, get_qty(item) is its value before the call plus qty.
C3_AddIncreasesByQty ==
    (op.name = "add_item" /\ ValidItem(op.item) /\ ValidQty(op.qty))
        => /\ GetQtyValue(stock_data, op.item).h
                = GetQtyValue(pre, op.item).h + op.qty.h
           /\ Contains(stock_data, op.item)

C3_Witness ==
    /\ op.name = "add_item"
    /\ ValidItem(op.item) /\ ValidQty(op.qty) /\ op.qty.h > 0
    /\ Contains(pre, op.item)
    /\ GetQtyValue(pre, op.item).h > 0

\* C4: add_item with an item that is empty or no str, or a qty that is
\* negative or no int, changes nothing: stock_data is as before, nothing is
\* raised, and the caller's logs list has no new entry.
C4_InvalidAddIsNoOp ==
    (op.name = "add_item" /\ ~(ValidItem(op.item) /\ ValidQty(op.qty)))
        => /\ stock_data = pre
           /\ ~raised
           /\ op.hasLogs => logs = op.logsIn

C4_Witness ==
    /\ op.name = "add_item"
    /\ op.item = IntV(123) /\ op.qty = Str("ten")
    /\ op.hasLogs
    /\ Len(pre) > 0

\* C5 as stated: for every item and integer qty, after remove_item(item, qty)
\* the item is absent when qty >= get_qty(item), and otherwise its entry
\* stays with the quantity reduced by exactly qty.
C5_RemoveAsStated ==
    (op.name = "remove_item" /\ op.qty.ty = "int")
        => /\ op.qty.h >= GetQtyValue(pre, op.item).h
                => /\ ~Contains(stock_data, op.item)
                   /\ GetQtyValue(stock_data, op.item).h = 0
           /\ op.qty.h < GetQtyValue(pre, op.item).h
                => /\ Contains(stock_data, op.item)
                   /\ GetQtyValue(stock_data, op.item).h
                        = GetQtyValue(pre, op.item).h - op.qty.h

\* C5 amended: the second half holds for an item that is in stock_data; for
\* an absent item and a negative qty the store stays as it was.
C5_RemovePresentItem ==
    (op.name = "remove_item" /\ op.qty.ty = "int")
        => /\ op.qty.h >= GetQtyValue(pre, op.item).h
                => /\ ~Contains(stock_data, op.item)
                   /\ GetQtyValue(stock_data, op.item).h = 0
           /\ (op.qty.h < GetQtyValue(pre, op.item).h /\ Contains(pre, op.item))
                => /\ Contains(stock_data, op.item)
                   /\ GetQtyValue(stock_data, op.item).h
                        = GetQtyValue(pre, op.item).h - op.qty.h
           /\ (op.qty.h < GetQtyValue(pre, op.item).h /\ ~Contains(pre, op.item))
                => stock_data = pre

C5_Witness ==
    /\ op.name = "remove_item" /\ op.qty.ty = "int"
    /\ Contains(pre, op.item)
    /\ op.qty.h = GetQtyValue(pre, op.item).h
    /\ op.qty.h > 0
    /\ ~Contains(stock_data, op.item)
    /\ Len(stock_data) > 0

\* C6: remove_item on an item that is no key of stock_data leaves the store
\* as it was, whatever qty is, prints the not-found warning and raises
\* nothing.
C6_RemoveAbsentItem ==
    (op.name = "remove_item" /\ op.item \notin Keys(pre))
        => /\ stock_data = pre
           /\ out = <<Msg("Warning: Item not found in inventory", op.item, NoneV)>>
           /\ ~raised

C6_Witness ==
    /\ op.name = "remove_item"
    /\ op.item = Str("orange") /\ op.qty = Str("ten")
    /\ Len(pre) = 2

\* C7: remove_item on a present item with a qty that is no int raises
\* nothing and leaves the whole store as it was.
C7_RemoveNonIntIsNoOp ==
    (op.name = "remove_item" /\ op.item \in Keys(pre) /\ op.qty.ty # "int")
        => /\ ~raised
           /\ stock_data = pre

\* C8: check_low_items(t) returns the items of stock_data whose quantity is
\* below t, and no other, each once, in the order of the dict, and leaves
\* the store as it was.
C8_LowItemsExact ==
    op.name = "check_low_items"
        => /\ {ret[i] : i \in 1..Len(ret)}
                = {k \in Keys(pre) : Lookup(pre, k).h < op.threshold.h}
           /\ \A i, j \in 1..Len(ret) : i # j => ret[i] # ret[j]
           /\ \A i, j \in 1..Len(ret) :
                i < j => IndexOf(pre, ret[i]) < IndexOf(pre, ret[j])
           /\ stock_data = pre

C8_Witness ==
    /\ op.name = "check_low_items"
    /\ Len(pre) = 2
    /\ Len(ret) = 1
    /\ \E i \in 1..Len(pre) : Value(pre, i).h = op.threshold.h

\* C9: save_data leaves stock_data as it was, and load_data(path) called
\* right after a save_data(path) that succeeded leaves stock_data equal to
\* the store that was saved.
C9_SaveLoadRoundTrip ==
    /\ op.name = "save_data" => stock_data = pre
    /\ (op.name = "load_data" /\ op.followsSave)
            => stock_data = pre

C9_Witness ==
    /\ op.name = "load_data" /\ op.followsSave
    /\ Len(pre) = 2
    /\ \E i \in 1..Len(pre) : Value(pre, i) = IntV(10)
    /\ \E i \in 1..Len(pre) : Value(pre, i) = FloatV(15)

\* the file load_data was given cannot be read as JSON
Unreadable(file) == ~fs[file].exists \/ fs[file].text \in ForeignTexts

\* C10: after load_data(path) the store is what the file holds and nothing
\* else, or empty when the file is missing or is not JSON; nothing is raised
\* and no earlier entry stays unless the file has it.
C10_LoadReplaces ==
    op.name = "load_data"
        => /\ ~raised
           /\ Unreadable(op.file) => stock_data = EmptyDict
           /\ ~Unreadable(op.file) => fs[op.file].text = Dump(stock_data)
           /\ \A k \in Keys(stock_data) :
                \E i \in 1..Len(fs[op.file].text) : fs[op.file].text[i] = Quoted(k.s)

C10_Witness ==
    /\ op.name = "load_data"
    /\ ~Unreadable(op.file)
    /\ Len(stock_data) = 1
    /\ Len(pre) = 2
    /\ \E k \in Keys(pre) : k \notin Keys(stock_data)

====
